---- MODULE Spec2Model ----
(***************************************************************************)
(* Model of the attack-live-map enrichment/sync pipeline:                  *)
(*   web/sync_daemon.py  start_sync_daemon / stop_sync_daemon / _loop /    *)
(*                       _sync_once / _atomic_write_json / the lru_cache-d *)
(*                       _get_location_for_ip and the lazy _get_geoip_reader*)
(* Every thread of the program is a process of the model; a step of the    *)
(* model is one statement (or one lock-protected group of statements) of   *)
(* the source.  Program counters are named after the source line they are  *)
(* about to execute.                                                       *)
(***************************************************************************)
EXTENDS Integers, Sequences, FiniteSets, TLC

(***************************************************************************)
(* Bounds of the model.                                                    *)
(***************************************************************************)
\* API calls (start_sync_daemon / stop_sync_daemon) the environment makes in Spec.
MaxCalls == 3
\* Records in the remote dataset of SyncSpec.
MaxRecords == 3
\* Threads other than the loop that call _get_location_for_ip in ResolverSpec,
\* and the calls they make.
MaxResolvers == 3
MaxLookups == 3
\* Log entries of a session handed to analyze_session, and lines of the
\* Cowrie log file handed to parse_cowrie_logs, in ParserSpec.
MaxLogs == 3
MaxLines == 3

\* Threads that call the module's API.
Callers == {1, 2}
\* A loop thread is created by a start call that found the daemon stopped.
MaxThreads == (MaxCalls + 1) \div 2
Threads == 1 .. MaxThreads
\* Threads that call the resolver themselves, and every thread that can.
Resolvers == MaxThreads + 1 .. MaxThreads + MaxResolvers
Workers == Threads \cup Resolvers

\* lru_cache(maxsize=4096), scaled to the model's three addresses.
maxsize == 2

(***************************************************************************)
(* Data: event records, the geo database, lookup results.                  *)
(***************************************************************************)
None == "None"
IPs == {"a", "b", "c", "d"}

\* An event record as the parser emits it (lat/lon None, country "N/A").
Bare(ip) == [id |-> ip, src_ip |-> ip, lat |-> None, lon |-> None, country |-> "N/A"]
\* An event record that already carries geographic data.
Located(ip) == [id |-> ip, src_ip |-> ip, lat |-> "37.5", lon |-> "127.0", country |-> "South Korea"]

\* What maxminddb's reader.get(ip) finds for each address of the model:
\* a full city record, a record with a country and no location fields, a
\* record with neither location fields nor an English country name, no
\* record.
GeoDB(ip) ==
    CASE ip = "a" -> "full"
      [] ip = "b" -> "noloc"
      [] ip = "d" -> "nameless"
      [] OTHER    -> "miss"

\* The return value None of _get_location_for_ip.
NoLocation == [none |-> TRUE]
\* lines 61 and 64: the dict returned for no match and for an exception.
UnknownLocation == [country |-> "Unknown"]

\* lines 54-61: the result of reader.get(ip) on an open handle.
Lookup(ip) ==
    CASE GeoDB(ip) = "full"  -> [lat |-> "35.6", lon |-> "139.7", country |-> "Japan"]
      [] GeoDB(ip) = "noloc" -> [lat |-> None, lon |-> None, country |-> "China"]
      [] GeoDB(ip) = "nameless" -> [lat |-> None, lon |-> None, country |-> "Unknown"]
      [] OTHER               -> UnknownLocation

\* lines 129 and 141: the record has a source IP and lacks geographic data.
NeedsLocation(item) ==
    /\ item.src_ip # None
    /\ (item.lat = None \/ item.country \in {"N/A", None})

\* dict.update, line 74.
Update(event, data) ==
    [k \in DOMAIN event |-> IF k \in DOMAIN data THEN data[k] ELSE event[k]]

\* Mutant of Filled: the fill also blanks the record's source address.
Filled_Overwrite(event, location_data) ==
    [event EXCEPT !.src_ip = None, !.country = "Unknown"]

\* lines 72-76 of _fill_location_info, given the resolver's answer.
Filled(event, location_data) ==
    IF location_data # NoLocation
    THEN Update(event, location_data)
    ELSE [event EXCEPT !.country = "Unknown"]

(***************************************************************************)
(* The snapshot file: json.dump writes "[", the records, "]".              *)
(***************************************************************************)
Open == [tok |-> "["]
Close == [tok |-> "]"]
Serialize(list) == <<Open>> \o [i \in 1 .. Len(list) |-> [tok |-> "rec", rec |-> list[i]]] \o <<Close>>

\* A text parses as a complete JSON array: "[", records only, "]".
IsCompleteJson(text) ==
    /\ Len(text) >= 2
    /\ text[1] = Open
    /\ text[Len(text)] = Close
    /\ \A i \in 2 .. Len(text) - 1 : text[i].tok = "rec"

AbsentFile == [exists |-> FALSE, text |-> <<>>]
File(text) == [exists |-> TRUE, text |-> text]

(***************************************************************************)
(* parser.py: Cowrie log entries, command texts, session analysis.         *)
(***************************************************************************)
\* A command text is a sequence of words; str.lower maps each word to its
\* lower-case form.
LowerWord(w) ==
    CASE w = "MINER" -> "miner"
      [] w = "Miner" -> "miner"
      [] w = "WGET" -> "wget"
      [] w = "/IP CLOUD PRINT" -> "/ip cloud print"
      [] w = "TelegramDesktop" -> "telegramdesktop"
      [] w = "SMSD" -> "smsd"
      [] OTHER -> w
Lower(text) == [i \in 1 .. Len(text) |-> LowerWord(text[i])]
\* needle in cmd
Contains(cmd, needle) == \E i \in 1 .. Len(cmd) : cmd[i] = needle

Connect == "cowrie.session.connect"
LoginSuccess == "cowrie.login.success"
LoginFailed == "cowrie.login.failed"
CommandInput == "cowrie.command.input"
SessionClosed == "cowrie.session.closed"

\* A log entry: the keys of the JSON object that the parser reads.  input
\* is the empty text where the entry has none (log.get("input", "")).
Entry(session, eventid, timestamp, input, src_ip) ==
    [session |-> session, eventid |-> eventid, timestamp |-> timestamp, input |-> input,
     src_ip |-> src_ip, dst_port |-> 22, protocol |-> "ssh"]

\* lines 36-44: the flags and the lower-cased commands, in session order.
RECURSIVE CommandsOf(_)
CommandsOf(session_logs) ==
    IF session_logs = <<>> THEN <<>>
    ELSE LET log == Head(session_logs)
         IN  (IF log.eventid = CommandInput THEN <<Lower(log.input)>> ELSE <<>>)
             \o CommandsOf(Tail(session_logs))
has_successful_login(session_logs) ==
    \E i \in 1 .. Len(session_logs) : session_logs[i].eventid = LoginSuccess
has_failed_login(session_logs) ==
    \E i \in 1 .. Len(session_logs) : session_logs[i].eventid = LoginFailed

Verdict(label, severity) == [label |-> label, severity |-> severity]

\* lines 51-57: the for loop over the commands returns at the first command
\* that matches any of the three tests; line 66 when none does.
RECURSIVE CommandVerdict(_)
CommandVerdict(commands) ==
    IF commands = <<>> THEN Verdict("reconnaissance", 2)
    ELSE LET cmd == Head(commands)
         IN  IF Contains(cmd, "miner") THEN Verdict("cryptominer-check", 4)
             ELSE IF Contains(cmd, "/ip cloud print") THEN Verdict("mikrotik-recon", 3)
             ELSE IF Contains(cmd, "telegramdesktop") \/ Contains(cmd, "smsd")
                  THEN Verdict("info-gathering", 3)
             ELSE CommandVerdict(Tail(commands))

\* Mutant of analyze_session: the commands are examined whether or not a
\* login succeeded.
analyze_session_CommandsFirst(session_logs) ==
    IF has_successful_login(session_logs) \/ CommandsOf(session_logs) # <<>>
    THEN CommandVerdict(CommandsOf(session_logs))
    ELSE IF has_failed_login(session_logs) THEN Verdict("brute-force", 2)
    ELSE Verdict("scan", 1)

\* analyze_session, lines 27-66.
analyze_session(session_logs) ==
    IF has_successful_login(session_logs) THEN CommandVerdict(CommandsOf(session_logs))
    ELSE IF has_failed_login(session_logs) THEN Verdict("brute-force", 2)
    ELSE Verdict("scan", 1)

(***************************************************************************)
(* parser.py: parse_cowrie_logs, lines 68-133.                             *)
(***************************************************************************)
\* A line of the input file: text that json.loads rejects, a JSON value
\* that is not an object, or a log entry.
BadLine == [kind |-> "invalid"]
ValueLine == [kind |-> "value"]
LogLine(log) == [kind |-> "object", log |-> log]

\* Mutant of ReadLines: the first invalid line ends the reading.
RECURSIVE ReadLines_Abort(_)
ReadLines_Abort(lines) ==
    IF lines = <<>> \/ Head(lines).kind = "invalid" THEN <<>>
    ELSE (IF Head(lines).log.session # None THEN <<Head(lines).log>> ELSE <<>>)
         \o ReadLines_Abort(Tail(lines))

\* lines 78-86: the entries that are appended to a session, in file order;
\* a line that json.loads rejects is skipped (lines 85-87), an entry without
\* a session id is left out (line 83).
RECURSIVE ReadLines(_)
ReadLines(lines) ==
    IF lines = <<>> THEN <<>>
    ELSE (IF Head(lines).kind = "object" /\ Head(lines).log.session # None
          THEN <<Head(lines).log>> ELSE <<>>)
         \o ReadLines(Tail(lines))

\* line 82 on a JSON value without .get raises AttributeError, which no
\* handler of parse_cowrie_logs catches.
ReadRaises(lines) == \E i \in 1 .. Len(lines) : lines[i].kind = "value"

\* The keys of the sessions dict in insertion order: each session id at its
\* first entry.
RECURSIVE SessionOrder(_)
SessionOrder(logs) ==
    IF logs = <<>> THEN <<>>
    ELSE LET rest == SessionOrder(SubSeq(logs, 1, Len(logs) - 1))
             sid == logs[Len(logs)].session
         IN  IF \E i \in 1 .. Len(rest) : rest[i] = sid THEN rest ELSE Append(rest, sid)

\* sessions[session_id]: the entries of one session, in file order.
RECURSIVE SessionLogs(_, _)
SessionLogs(logs, sid) ==
    IF logs = <<>> THEN <<>>
    ELSE (IF Head(logs).session = sid THEN <<Head(logs)>> ELSE <<>>)
         \o SessionLogs(Tail(logs), sid)

Timestamps == 1 .. 2
RECURSIVE SessionLogsAt(_, _)
SessionLogsAt(logs, ts) ==
    IF logs = <<>> THEN <<>>
    ELSE (IF Head(logs).timestamp = ts THEN <<Head(logs)>> ELSE <<>>)
         \o SessionLogsAt(Tail(logs), ts)

\* Mutant of SortByTimestamp: the entries stay in file order.
SortByTimestamp_Unsorted(logs) == logs

\* line 100: list.sort by timestamp; the sort is stable.
RECURSIVE SortFrom(_, _)
SortFrom(logs, ts) ==
    IF ts \notin Timestamps THEN <<>>
    ELSE SessionLogsAt(logs, ts) \o SortFrom(logs, ts + 1)
SortByTimestamp(logs) == SortFrom(logs, 1)

\* lines 97-126 for one session: no event unless the first entry after the
\* sort is a connect; k events were built before (uuid4 gives each event a
\* fresh id).
SessionEvent(logs, k) ==
    LET sorted == SortByTimestamp(logs)
        first_log == sorted[1]
        verdict == analyze_session(sorted)
    IN  IF first_log.eventid # Connect THEN <<>>
        ELSE << [id |-> <<"uuid4", k + 1>>,
                 ts |-> first_log.timestamp,
                 src_ip |-> first_log.src_ip,
                 lat |-> None, lon |-> None, country |-> "N/A",
                 port |-> first_log.dst_port,
                 proto |-> IF first_log.protocol = "ssh" THEN "tcp" ELSE first_log.protocol,
                 label |-> verdict.label,
                 severity |-> verdict.severity] >>

\* lines 92-127: the events of the sessions, in the order of the dict.
RECURSIVE OutputEvents(_, _)
OutputEvents(logs, order) ==
    IF order = <<>> THEN <<>>
    ELSE LET before == OutputEvents(logs, SubSeq(order, 1, Len(order) - 1))
         IN  before \o SessionEvent(SessionLogs(logs, order[Len(order)]), Len(before))

\* The input file and what a run of parse_cowrie_logs leaves behind.
NoInputFile == [exists |-> FALSE, lines |-> <<>>]
InputFile(lines) == [exists |-> TRUE, lines |-> lines]
NotRun == [state |-> "not_run", items |-> <<>>]
\* lines 76-91 and 129-131: a missing input file prints an error and
\* returns; otherwise the events are written to the output file.
parse_cowrie_logs(input) ==
    IF ~input.exists THEN [state |-> "no_input", items |-> <<>>]
    ELSE IF ReadRaises(input.lines) THEN [state |-> "raised", items |-> <<>>]
    ELSE LET logs == ReadLines(input.lines)
         IN  [state |-> "written", items |-> OutputEvents(logs, SessionOrder(logs))]

NoAnalysis == [state |-> "not_run", result |-> Verdict(None, 0)]

(***************************************************************************)
(* State.                                                                  *)
(***************************************************************************)
VARIABLES
    started,       \* _started
    thread,        \* _thread: 0 is None, otherwise the loop thread's number
    stop_flag,     \* _stop_flag (threading.Event)
    lock,          \* _lock is held
    geoip_reader,  \* _geoip_reader: 0 is None, otherwise a database handle
    geoip_lock,    \* _geoip_lock is held
    opened,        \* how many times maxminddb.open_database succeeded
    closed,        \* the database handles on which close() was called
    cache,         \* lru_cache of _get_location_for_ip, least recently used first
    remote,        \* the object at S3 (bucket, key)
    dbfile,        \* the file at GEOIP_DB_PATH: "ok", "missing" or "invalid"
    dest,          \* the file at _LOCAL_PATH
    cpc,           \* where each API caller is
    callsLeft,     \* API calls the environment may still make
    th,            \* each loop thread: its position and the locals of _sync_once
    rs,            \* each loop thread's frame of _get_location_for_ip
    crashed,       \* the process was killed
    transitions,   \* history: times _started went from False to True
    last,          \* history: the resolution that completed last
    cowrie,        \* the honeypot host's Cowrie log file (cowrie.json)
    events,        \* what a run of parse_cowrie_logs left: its outcome and output file
    analysis       \* what a call of analyze_session on the log's entries returned

daemonVars == <<started, thread, stop_flag, lock>>
geoVars == <<geoip_reader, geoip_lock, opened, closed, cache, last>>
\* What lies outside the daemon: the S3 object, the database file, the kill
\* of the process, and the honeypot host with its log and its parser.
envVars == <<remote, dbfile, crashed, cowrie, events, analysis>>
callVars == <<cpc, callsLeft, transitions>>
vars == <<started, thread, stop_flag, lock, geoip_reader, geoip_lock, opened, closed, cache,
          remote, dbfile, dest, cpc, callsLeft, th, rs, crashed, transitions, last,
          cowrie, events, analysis>>

\* A loop thread outside _sync_once: NoThread is one that does not exist yet.
\* nq, outcome and woke are history: the database queries made for each IP in
\* this iteration, how the last _sync_once ended, how the last wait ended.
NoThread ==
    [pc |-> "none", list |-> <<>>, todo |-> {}, idx |-> 0, filled_count |-> 0,
     tmp |-> AbsentFile, nq |-> [ip \in IPs |-> 0],
     outcome |-> "none", woke |-> "none"]
\* No call of _get_location_for_ip in progress.
NoCall == [pc |-> "off", ip |-> None, reader |-> 0, res |-> NoLocation]
NoResolution == [ip |-> None, res |-> NoLocation]

\* _sync_once returned or raised: its locals are gone; the thread is at the
\* wait of line 159.
AtWait(outcome) == [NoThread EXCEPT !.pc = "loop_159", !.outcome = outcome]

\* The loop threads created so far.
NThreads == Cardinality({t \in Threads : th[t].pc # "none"})

(***************************************************************************)
(* What the remote object can hold: a JSON array of records, or a single   *)
(* JSON object (line 123 wraps it).                                        *)
(***************************************************************************)
RecordKinds == {Bare("a"), Bare("b"), Bare("c"), Located("a")}
RECURSIVE ListsUpTo(_)
ListsUpTo(n) ==
    IF n = 0 THEN {<<>>}
    ELSE LET shorter == ListsUpTo(n - 1)
         IN  shorter \cup {Append(l, r) : l \in {s \in shorter : Len(s) = n - 1}, r \in RecordKinds}
ArrayBody(list) == [type |-> "list", items |-> list]
ObjectBody(rec) == [type |-> "dict", items |-> <<rec>>]

\* The remote objects of Spec: an empty array and an array of one record.
SmallBodies == {ArrayBody(<<>>), ArrayBody(<<Bare("a")>>)}
\* The remote objects of SyncSpec: every array of at most MaxRecords records.
AllBodies == {ArrayBody(l) : l \in ListsUpTo(MaxRecords)} \cup {ObjectBody(Bare("a"))}

\* The module's globals after import (lines 21-27), no call made yet.  The
\* snapshot file holds "[]", as config.ensure_events_file_exists leaves it.
InitProgram ==
    /\ started = FALSE
    /\ thread = 0
    /\ stop_flag = FALSE
    /\ lock = FALSE
    /\ geoip_reader = 0
    /\ geoip_lock = FALSE
    /\ opened = 0
    /\ closed = {}
    /\ cache = <<>>
    /\ dest = File(Serialize(<<>>))
    /\ cpc = [c \in Callers |-> "idle"]
    /\ th = [t \in Workers |-> NoThread]
    /\ rs = [t \in Workers |-> NoCall]
    /\ crashed = FALSE
    /\ transitions = 0
    /\ last = NoResolution

\* The parser has not run where the daemon is the subject.
InitHost ==
    /\ cowrie = NoInputFile
    /\ events = NotRun
    /\ analysis = NoAnalysis

Init ==
    /\ InitProgram
    /\ InitHost
    /\ remote \in SmallBodies
    /\ dbfile \in {"ok", "missing"}
    /\ callsLeft = MaxCalls

(***************************************************************************)
(* start_sync_daemon, lines 162-170.                                       *)
(***************************************************************************)
\* line 164: the unlocked check.
StartCheck(c) ==
    /\ cpc[c] = "idle"
    /\ callsLeft > 0
    /\ callsLeft' = callsLeft - 1
    /\ cpc' = [cpc EXCEPT ![c] = IF started THEN "idle" ELSE "start_165"]
    /\ UNCHANGED <<daemonVars, geoVars, envVars, dest, th, rs, transitions>>

\* Mutant of StartLock: line 166 is missing, the caller never checks again.
StartLock_NoRecheck(c) ==
    /\ cpc[c] = "start_165"
    /\ ~lock
    /\ cpc' = [cpc EXCEPT ![c] = "start_167"]
    /\ lock' = TRUE
    /\ UNCHANGED <<started, thread, stop_flag, geoVars, envVars, dest, th, rs, callsLeft, transitions>>

\* lines 165-166: take _lock and check again.
StartLock(c) ==
    /\ cpc[c] = "start_165"
    /\ ~lock
    /\ IF started
       THEN /\ cpc' = [cpc EXCEPT ![c] = "idle"]
            /\ UNCHANGED lock
       ELSE /\ cpc' = [cpc EXCEPT ![c] = "start_167"]
            /\ lock' = TRUE
    /\ UNCHANGED <<started, thread, stop_flag, geoVars, envVars, dest, th, rs, callsLeft, transitions>>

\* lines 167-169: clear the flag, create the loop thread and start it.
StartThread(c) ==
    /\ cpc[c] = "start_167"
    /\ NThreads < MaxThreads
    /\ stop_flag' = FALSE
    /\ LET t == NThreads + 1
       IN  /\ thread' = t
           /\ th' = [th EXCEPT ![t].pc = "loop_153"]
    /\ cpc' = [cpc EXCEPT ![c] = "start_170"]
    /\ UNCHANGED <<started, lock, geoVars, envVars, dest, rs, callsLeft, transitions>>

\* line 170, and the end of the with block.
StartSet(c) ==
    /\ cpc[c] = "start_170"
    /\ started' = TRUE
    /\ transitions' = IF started THEN transitions ELSE transitions + 1
    /\ lock' = FALSE
    /\ cpc' = [cpc EXCEPT ![c] = "idle"]
    /\ UNCHANGED <<thread, stop_flag, geoVars, envVars, dest, th, rs, callsLeft>>

(***************************************************************************)
(* stop_sync_daemon, lines 172-182.                                        *)
(***************************************************************************)
\* The call is made; it waits for _lock at line 174.
StopCall(c) ==
    /\ cpc[c] = "idle"
    /\ callsLeft > 0
    /\ callsLeft' = callsLeft - 1
    /\ cpc' = [cpc EXCEPT ![c] = "stop_174"]
    /\ UNCHANGED <<daemonVars, geoVars, envVars, dest, th, rs, transitions>>

\* Mutant of StopLock: the test of line 175 is left out.
StopLock_AlwaysStop(c) ==
    /\ cpc[c] = "stop_174"
    /\ ~lock
    /\ cpc' = [cpc EXCEPT ![c] = "stop_176"]
    /\ lock' = TRUE
    /\ UNCHANGED <<started, thread, stop_flag, geoVars, envVars, dest, th, rs, callsLeft, transitions>>

\* lines 174-175: take _lock; not started: return.
StopLock(c) ==
    /\ cpc[c] = "stop_174"
    /\ ~lock
    /\ IF ~started
       THEN /\ cpc' = [cpc EXCEPT ![c] = "idle"]
            /\ UNCHANGED lock
       ELSE /\ cpc' = [cpc EXCEPT ![c] = "stop_176"]
            /\ lock' = TRUE
    /\ UNCHANGED <<started, thread, stop_flag, geoVars, envVars, dest, th, rs, callsLeft, transitions>>

\* line 176.
StopSignal(c) ==
    /\ cpc[c] = "stop_176"
    /\ stop_flag' = TRUE
    /\ cpc' = [cpc EXCEPT ![c] = "stop_177"]
    /\ UNCHANGED <<started, thread, lock, geoVars, envVars, dest, th, rs, callsLeft, transitions>>

\* lines 178-179 and the end of the with block.
StopRelease(c) ==
    /\ thread' = 0
    /\ started' = FALSE
    /\ lock' = FALSE
    /\ cpc' = [cpc EXCEPT ![c] = "stop_180"]
    /\ UNCHANGED <<stop_flag, geoVars, envVars, dest, th, rs, callsLeft, transitions>>

\* line 177: join returns because the loop thread has ended.
StopJoinDone(c) ==
    /\ cpc[c] = "stop_177"
    /\ (thread = 0 \/ th[thread].pc = "done")
    /\ StopRelease(c)

\* Mutant of StopJoinTimeout: join() without a timeout.
StopJoinTimeout_Never(c) ==
    /\ cpc[c] = "stop_177"
    /\ FALSE
    /\ StopRelease(c)

\* line 177: join returns because two seconds have passed.
StopJoinTimeout(c) ==
    /\ cpc[c] = "stop_177"
    /\ thread # 0
    /\ th[thread].pc # "done"
    /\ StopRelease(c)

\* line 180.
StopCheckReader(c) ==
    /\ cpc[c] = "stop_180"
    /\ cpc' = [cpc EXCEPT ![c] = IF geoip_reader # 0 THEN "stop_181" ELSE "idle"]
    /\ UNCHANGED <<daemonVars, geoVars, envVars, dest, th, rs, callsLeft, transitions>>

\* line 181: close() of the handle the global names now; on None the call
\* ends with AttributeError.
StopCloseReader(c) ==
    /\ cpc[c] = "stop_181"
    /\ IF geoip_reader # 0
       THEN /\ closed' = closed \cup {geoip_reader}
            /\ cpc' = [cpc EXCEPT ![c] = "stop_182"]
       ELSE /\ cpc' = [cpc EXCEPT ![c] = "raised"]
            /\ UNCHANGED closed
    /\ UNCHANGED <<daemonVars, geoip_reader, geoip_lock, opened, cache, last, envVars, dest, th, rs, callsLeft, transitions>>

\* Mutant of StopResetReader: line 182 is left out.
StopResetReader_Keep(c) ==
    /\ cpc[c] = "stop_182"
    /\ cpc' = [cpc EXCEPT ![c] = "idle"]
    /\ UNCHANGED <<daemonVars, geoVars, envVars, dest, th, rs, callsLeft, transitions>>

\* line 182.
StopResetReader(c) ==
    /\ cpc[c] = "stop_182"
    /\ geoip_reader' = 0
    /\ cpc' = [cpc EXCEPT ![c] = "idle"]
    /\ UNCHANGED <<daemonVars, geoip_lock, opened, closed, cache, last, envVars, dest, th, rs, callsLeft, transitions>>

(***************************************************************************)
(* lru_cache (functools): the cache is a list of entries, least recently   *)
(* used first.                                                             *)
(***************************************************************************)
Cached(ip) == \E i \in 1 .. Len(cache) : cache[i].ip = ip
CacheIndex(ip) == CHOOSE i \in 1 .. Len(cache) : cache[i].ip = ip
Without(seq, i) == [j \in 1 .. Len(seq) - 1 |-> IF j < i THEN seq[j] ELSE seq[j + 1]]
\* A hit moves the entry to the most recently used end.
Touch(ip) == Append(Without(cache, CacheIndex(ip)), cache[CacheIndex(ip)])
\* Mutant of Insert: the result is not stored.
Insert_Drop(ip, res) == cache

\* After the call: a key added meanwhile is left alone; a full cache drops
\* its least recently used entry.
Insert(ip, res) ==
    IF Cached(ip) THEN cache
    ELSE IF Len(cache) >= maxsize THEN Append(Tail(cache), [ip |-> ip, res |-> res])
    ELSE Append(cache, [ip |-> ip, res |-> res])

\* The call of _get_location_for_ip(ip) a thread makes.
Call(ip) == [pc |-> "lookup", ip |-> ip, reader |-> 0, res |-> NoLocation]
Return(call, res) == [call EXCEPT !.pc = "ret", !.res = res]

(***************************************************************************)
(* _get_location_for_ip, lines 46-64, with _get_geoip_reader, lines 30-44. *)
(***************************************************************************)
\* The lru_cache wrapper looks the key up: a hit returns the cached value.
ResolveLookup(t) ==
    /\ rs[t].pc = "lookup"
    /\ IF Cached(rs[t].ip)
       THEN /\ cache' = Touch(rs[t].ip)
            /\ rs' = [rs EXCEPT ![t] = Return(@, cache[CacheIndex(rs[t].ip)].res)]
            /\ last' = [ip |-> rs[t].ip, res |-> cache[CacheIndex(rs[t].ip)].res]
       ELSE /\ rs' = [rs EXCEPT ![t].pc = "reader_32"]
            /\ UNCHANGED <<cache, last>>
    /\ UNCHANGED <<daemonVars, geoip_reader, geoip_lock, opened, closed, envVars, dest, callVars, th>>

\* line 32: the unlocked check of _get_geoip_reader.
ReaderCheck(t) ==
    /\ rs[t].pc = "reader_32"
    /\ rs' = [rs EXCEPT ![t].pc = IF geoip_reader = 0 THEN "reader_33" ELSE "reader_44"]
    /\ UNCHANGED <<daemonVars, geoVars, envVars, dest, callVars, th>>

\* line 33: take _geoip_lock.
ReaderLock(t) ==
    /\ rs[t].pc = "reader_33"
    /\ ~geoip_lock
    /\ geoip_lock' = TRUE
    /\ rs' = [rs EXCEPT ![t].pc = "reader_34"]
    /\ UNCHANGED <<daemonVars, geoip_reader, opened, closed, cache, last, envVars, dest, callVars, th>>

\* Mutant of ReaderOpen: line 34, the check under _geoip_lock, is left out.
ReaderOpen_NoRecheck(t) ==
    /\ rs[t].pc = "reader_34"
    /\ geoip_lock' = FALSE
    /\ IF dbfile # "ok"
       THEN /\ rs' = [rs EXCEPT ![t].pc = "insert", ![t].reader = 0, ![t].res = NoLocation]
            /\ UNCHANGED <<geoip_reader, opened>>
       ELSE /\ opened' = opened + 1
            /\ geoip_reader' = opened + 1
            /\ rs' = [rs EXCEPT ![t].pc = "reader_44"]
    /\ UNCHANGED <<daemonVars, closed, cache, last, envVars, dest, callVars, th>>

\* lines 34-43 and the end of the with block: open the database unless it
\* is open by now; a missing or invalid file returns None (lines 37, 43),
\* which lines 50-51 pass on.
ReaderOpen(t) ==
    /\ rs[t].pc = "reader_34"
    /\ geoip_lock' = FALSE
    /\ IF geoip_reader # 0
       THEN /\ rs' = [rs EXCEPT ![t].pc = "reader_44"]
            /\ UNCHANGED <<geoip_reader, opened>>
       ELSE IF dbfile # "ok"
       THEN /\ rs' = [rs EXCEPT ![t].pc = "insert", ![t].reader = 0, ![t].res = NoLocation]
            /\ UNCHANGED <<geoip_reader, opened>>
       ELSE /\ opened' = opened + 1
            /\ geoip_reader' = opened + 1
            /\ rs' = [rs EXCEPT ![t].pc = "reader_44"]
    /\ UNCHANGED <<daemonVars, closed, cache, last, envVars, dest, callVars, th>>

\* lines 44 and 50-51: return what the global holds now; without a reader
\* the result is None.
ReaderReturn(t) ==
    /\ rs[t].pc = "reader_44"
    /\ rs' = [rs EXCEPT ![t].pc = IF geoip_reader = 0 THEN "insert" ELSE "resolve_54",
                        ![t].reader = geoip_reader,
                        ![t].res = NoLocation]
    /\ UNCHANGED <<daemonVars, geoVars, envVars, dest, callVars, th>>

\* lines 53-64: the database query; a closed handle raises, which line 62
\* catches.
ResolveQuery(t) ==
    /\ rs[t].pc = "resolve_54"
    /\ rs' = [rs EXCEPT ![t].pc = "insert",
                        ![t].res = IF rs[t].reader \in closed THEN UnknownLocation
                                   ELSE Lookup(rs[t].ip)]
    /\ th' = [th EXCEPT ![t].nq[rs[t].ip] = @ + 1]
    /\ UNCHANGED <<daemonVars, geoVars, envVars, dest, callVars>>

\* The lru_cache wrapper stores the result and returns it.
ResolveInsert(t) ==
    /\ rs[t].pc = "insert"
    /\ cache' = Insert(rs[t].ip, rs[t].res)
    /\ rs' = [rs EXCEPT ![t].pc = "ret"]
    /\ last' = [ip |-> rs[t].ip, res |-> rs[t].res]
    /\ UNCHANGED <<daemonVars, geoip_reader, geoip_lock, opened, closed, envVars, dest, callVars, th>>

\* A thread other than the loop calls _get_location_for_ip(ip), line 47.
ForegroundCall(r, ip) ==
    /\ rs[r].pc = "off"
    /\ th[r].pc = "none"
    /\ callsLeft > 0
    /\ callsLeft' = callsLeft - 1
    /\ rs' = [rs EXCEPT ![r] = Call(ip)]
    /\ UNCHANGED <<daemonVars, geoVars, envVars, dest, cpc, transitions, th>>

\* The call returns to that thread.
ForegroundReturn(r) ==
    /\ rs[r].pc = "ret"
    /\ th[r].pc = "none"
    /\ rs' = [rs EXCEPT ![r] = NoCall]
    /\ UNCHANGED <<daemonVars, geoVars, envVars, dest, callVars, th>>

(***************************************************************************)
(* _loop, lines 151-160, and _sync_once, lines 119-148.                    *)
(***************************************************************************)
\* line 153: the while test; line 160 when the flag is set.
LoopCheck(t) ==
    /\ th[t].pc = "loop_153"
    /\ th' = [th EXCEPT ![t].pc = IF stop_flag THEN "done" ELSE "sync_120",
                        ![t].outcome = "none", ![t].woke = "none"]
    /\ UNCHANGED <<daemonVars, geoVars, envVars, dest, callVars, rs>>

\* Mutant of FetchFail: the failed fetch is tried again at once, line 159
\* is skipped.
FetchFail_Retry(t) ==
    /\ th[t].pc = "sync_120"
    /\ th' = [th EXCEPT ![t] = [AtWait("fetch_failed") EXCEPT !.pc = "loop_153"]]
    /\ UNCHANGED <<daemonVars, geoVars, envVars, dest, callVars, rs>>

\* lines 120-121: _read_s3_json caught an error (ClientError, JSONDecodeError
\* or another exception) and returned None; _sync_once returns 0.
FetchFail(t) ==
    /\ th[t].pc = "sync_120"
    /\ th' = [th EXCEPT ![t] = AtWait("fetch_failed")]
    /\ UNCHANGED <<daemonVars, geoVars, envVars, dest, callVars, rs>>

\* lines 127-130: the source IPs of the records that lack geographic data.
UniqueIps(list) == {list[i].src_ip : i \in {j \in 1 .. Len(list) : NeedsLocation(list[j])}}

\* lines 120-130: the fetch succeeds; an empty list returns 0 at line 124.
FetchOk(t) ==
    /\ th[t].pc = "sync_120"
    /\ LET s3_list == remote.items
       IN  th' = [th EXCEPT ![t] =
                    IF s3_list = <<>>
                    THEN AtWait("empty")
                    ELSE [@ EXCEPT !.pc = "sync_135", !.list = s3_list,
                                   !.todo = UniqueIps(s3_list),
                                   !.nq = [ip \in IPs |-> 0]]]
    /\ UNCHANGED <<daemonVars, geoVars, envVars, dest, callVars, rs>>

\* lines 133-136: resolve the next unique IP (a set has no order); line 139
\* when none is left.
DedupNext(t) ==
    /\ th[t].pc = "sync_135"
    /\ IF th[t].todo = {}
       THEN /\ th' = [th EXCEPT ![t].pc = "sync_140", ![t].idx = 1, ![t].filled_count = 0]
            /\ UNCHANGED rs
       ELSE \E ip \in th[t].todo :
            /\ th' = [th EXCEPT ![t].pc = "sync_136", ![t].todo = @ \ {ip}]
            /\ rs' = [rs EXCEPT ![t] = Call(ip)]
    /\ UNCHANGED <<daemonVars, geoVars, envVars, dest, callVars>>

\* line 136: the call returned; its value is dropped.
DedupReturn(t) ==
    /\ th[t].pc = "sync_136"
    /\ rs[t].pc = "ret"
    /\ th' = [th EXCEPT ![t].pc = "sync_135"]
    /\ rs' = [rs EXCEPT ![t] = NoCall]
    /\ UNCHANGED <<daemonVars, geoVars, envVars, dest, callVars>>

\* Mutant of FillNext: the fill pass hands over every record, whether or not
\* it lacks geographic data.
FillNext_AnyRecord(t) ==
    /\ th[t].pc = "sync_140"
    /\ th[t].idx <= Len(th[t].list)
    /\ th' = [th EXCEPT ![t].pc = "fill_71"]
    /\ rs' = [rs EXCEPT ![t] = Call(th[t].list[th[t].idx].src_ip)]
    /\ UNCHANGED <<daemonVars, geoVars, envVars, dest, callVars>>

\* lines 140-142 and 69-71: the next record; one that lacks geographic data
\* is handed to _fill_location_info, which calls the resolver.
FillNext(t) ==
    /\ th[t].pc = "sync_140"
    /\ th[t].idx <= Len(th[t].list)
    /\ IF NeedsLocation(th[t].list[th[t].idx])
       THEN /\ th' = [th EXCEPT ![t].pc = "fill_71"]
            /\ rs' = [rs EXCEPT ![t] = Call(th[t].list[th[t].idx].src_ip)]
       ELSE /\ th' = [th EXCEPT ![t].idx = @ + 1]
            /\ UNCHANGED rs
    /\ UNCHANGED <<daemonVars, geoVars, envVars, dest, callVars>>

\* lines 72-76 and 143: the record is updated in place and counted.
FillReturn(t) ==
    /\ th[t].pc = "fill_71"
    /\ rs[t].pc = "ret"
    /\ th' = [th EXCEPT ![t].pc = "sync_140",
                        ![t].list[th[t].idx] = Filled(@, rs[t].res),
                        ![t].filled_count = @ + 1,
                        ![t].idx = @ + 1]
    /\ rs' = [rs EXCEPT ![t] = NoCall]
    /\ UNCHANGED <<daemonVars, geoVars, envVars, dest, callVars>>

\* line 145: take _lock once every record was visited.
SyncLock(t) ==
    /\ th[t].pc = "sync_140"
    /\ th[t].idx > Len(th[t].list)
    /\ ~lock
    /\ lock' = TRUE
    /\ th' = [th EXCEPT ![t].pc = "write_108"]
    /\ UNCHANGED <<started, thread, stop_flag, geoVars, envVars, dest, callVars, rs>>

(***************************************************************************)
(* _atomic_write_json, lines 105-116.                                      *)
(***************************************************************************)
\* lines 106-108: mkstemp creates an empty temporary file of its own name.
WriteMkstemp(t) ==
    /\ th[t].pc = "write_108"
    /\ th' = [th EXCEPT ![t].pc = "write_111", ![t].tmp = File(<<>>)]
    /\ UNCHANGED <<daemonVars, geoVars, envVars, dest, callVars, rs>>

\* Mutant of WriteChunk: the document is written to _LOCAL_PATH itself.
WriteChunk_InPlace(t) ==
    /\ th[t].pc = "write_111"
    /\ LET doc == Serialize(th[t].list)
           n == Len(th[t].tmp.text)
       IN  /\ th' = [th EXCEPT ![t].tmp = File(Append(@.text, doc[n + 1])),
                               ![t].pc = IF n + 1 = Len(doc) THEN "write_112" ELSE "write_111"]
           /\ dest' = File(SubSeq(doc, 1, n + 1))
    /\ UNCHANGED <<daemonVars, geoVars, envVars, callVars, rs>>

\* lines 110-111: json.dump writes the next piece of the document to the
\* temporary file.
WriteChunk(t) ==
    /\ th[t].pc = "write_111"
    /\ LET doc == Serialize(th[t].list)
           n == Len(th[t].tmp.text)
       IN  th' = [th EXCEPT ![t].tmp = File(Append(@.text, doc[n + 1])),
                            ![t].pc = IF n + 1 = Len(doc) THEN "write_112" ELSE "write_111"]
    /\ UNCHANGED <<daemonVars, geoVars, envVars, dest, callVars, rs>>

\* line 112 (a rename within one directory), then lines 113-116, the end of
\* the with block of line 145 and the return of line 148.
WriteMove(t) ==
    /\ th[t].pc = "write_112"
    /\ dest' = th[t].tmp
    /\ th' = [th EXCEPT ![t] = AtWait("published")]
    /\ lock' = FALSE
    /\ UNCHANGED <<started, thread, stop_flag, geoVars, envVars, callVars, rs>>

\* Mutant of WriteFail: line 157 does not catch the exception, the thread
\* ends.
WriteFail_Fatal(t) ==
    /\ th[t].pc \in {"write_108", "write_111", "write_112"}
    /\ th' = [th EXCEPT ![t] = [AtWait("write_failed") EXCEPT !.pc = "done"]]
    /\ lock' = FALSE
    /\ UNCHANGED <<started, thread, stop_flag, geoVars, envVars, dest, callVars, rs>>

\* An OSError anywhere in lines 108-112: line 115 removes the temporary
\* file, the with block releases _lock, line 157 catches the exception.
WriteFail(t) ==
    /\ th[t].pc \in {"write_108", "write_111", "write_112"}
    /\ th' = [th EXCEPT ![t] = AtWait("write_failed")]
    /\ lock' = FALSE
    /\ UNCHANGED <<started, thread, stop_flag, geoVars, envVars, dest, callVars, rs>>

\* The process is killed while a thread publishes: every thread stops where
\* it is, and the files stay as they are.
Crash ==
    /\ ~crashed
    /\ \E t \in Threads : th[t].pc \in {"write_108", "write_111", "write_112"}
    /\ crashed' = TRUE
    /\ th' = [t \in Workers |-> [th[t] EXCEPT !.pc = "killed"]]
    /\ rs' = [t \in Workers |-> [rs[t] EXCEPT !.pc = "killed"]]
    /\ cpc' = [c \in Callers |-> "killed"]
    /\ UNCHANGED <<daemonVars, geoVars, remote, dbfile, dest, callsLeft, transitions,
                   cowrie, events, analysis>>

\* line 159: _stop_flag.wait returns at once when the flag is set.
WaitSignalled(t) ==
    /\ th[t].pc = "loop_159"
    /\ stop_flag
    /\ th' = [th EXCEPT ![t].pc = "loop_153", ![t].woke = "signal"]
    /\ UNCHANGED <<daemonVars, geoVars, envVars, dest, callVars, rs>>

\* line 159: _INTERVAL_S seconds passed with the flag clear.
WaitTimeout(t) ==
    /\ th[t].pc = "loop_159"
    /\ ~stop_flag
    /\ th' = [th EXCEPT ![t].pc = "loop_153", ![t].woke = "timeout"]
    /\ UNCHANGED <<daemonVars, geoVars, envVars, dest, callVars, rs>>

(***************************************************************************)
(* The program.                                                            *)
(***************************************************************************)
Next ==
    \/ \E c \in Callers : StartCheck(c)
    \/ \E c \in Callers : StartLock(c)
    \/ \E c \in Callers : StartThread(c)
    \/ \E c \in Callers : StartSet(c)
    \/ \E c \in Callers : StopCall(c)
    \/ \E c \in Callers : StopLock(c)
    \/ \E c \in Callers : StopSignal(c)
    \/ \E c \in Callers : StopJoinDone(c)
    \/ \E c \in Callers : StopJoinTimeout(c)
    \/ \E c \in Callers : StopCheckReader(c)
    \/ \E c \in Callers : StopCloseReader(c)
    \/ \E c \in Callers : StopResetReader(c)
    \/ \E t \in Threads : LoopCheck(t)
    \/ \E t \in Threads : FetchFail(t)
    \/ \E t \in Threads : FetchOk(t)
    \/ \E t \in Threads : DedupNext(t)
    \/ \E t \in Threads : DedupReturn(t)
    \/ \E t \in Threads : FillNext(t)
    \/ \E t \in Threads : FillReturn(t)
    \/ \E t \in Threads : SyncLock(t)
    \/ \E t \in Threads : WriteMkstemp(t)
    \/ \E t \in Threads : WriteChunk(t)
    \/ \E t \in Threads : WriteMove(t)
    \/ \E t \in Threads : WriteFail(t)
    \/ \E t \in Threads : WaitSignalled(t)
    \/ \E t \in Threads : WaitTimeout(t)
    \/ \E t \in Threads : ResolveLookup(t)
    \/ \E t \in Threads : ReaderCheck(t)
    \/ \E t \in Threads : ReaderLock(t)
    \/ \E t \in Threads : ReaderOpen(t)
    \/ \E t \in Threads : ReaderReturn(t)
    \/ \E t \in Threads : ResolveQuery(t)
    \/ \E t \in Threads : ResolveInsert(t)
    \/ Crash

Spec == Init /\ [][Next]_vars

(***************************************************************************)
(* Scheduling: every thread that can take a step of its own code takes it  *)
(* (the fetch ends, join and wait time out); a thread waiting for a lock   *)
(* gets it if the lock is released again and again.  Whether a call is     *)
(* made, a write fails or the process is killed is up to the environment.  *)
(***************************************************************************)
CallerRun(c) ==
    \/ StartThread(c) \/ StartSet(c)
    \/ StopSignal(c) \/ StopJoinDone(c) \/ StopJoinTimeout(c)
    \/ StopCheckReader(c) \/ StopCloseReader(c) \/ StopResetReader(c)

ThreadRun(t) ==
    \/ LoopCheck(t) \/ FetchFail(t) \/ FetchOk(t)
    \/ DedupNext(t) \/ DedupReturn(t) \/ FillNext(t) \/ FillReturn(t)
    \/ WriteMkstemp(t) \/ WriteChunk(t) \/ WriteMove(t)
    \/ WaitSignalled(t) \/ WaitTimeout(t)
    \/ ResolveLookup(t) \/ ReaderCheck(t) \/ ReaderOpen(t) \/ ReaderReturn(t)
    \/ ResolveQuery(t) \/ ResolveInsert(t)

Fairness ==
    /\ \A c \in Callers :
        /\ WF_vars(CallerRun(c))
        /\ SF_vars(StartLock(c))
        /\ SF_vars(StopLock(c))
    /\ \A t \in Threads :
        /\ WF_vars(ThreadRun(t))
        /\ SF_vars(SyncLock(t))
        /\ SF_vars(ReaderLock(t))

\* One daemon run (a start call and a stop call, in either order or racing)
\* over a dataset of one record to enrich, under the scheduling above.
InitFair ==
    /\ InitProgram
    /\ InitHost
    /\ remote = ArrayBody(<<Bare("a")>>)
    /\ dbfile \in {"ok", "missing"}
    /\ callsLeft = 2

FairSpec == InitFair /\ [][Next]_vars /\ Fairness

\* A daemon that is started, stopped and started again: MaxCalls calls over
\* a dataset of one record to enrich, under the scheduling above.
InitRestart ==
    /\ InitProgram
    /\ InitHost
    /\ remote = ArrayBody(<<Bare("a")>>)
    /\ dbfile \in {"ok", "missing"}
    /\ callsLeft = MaxCalls

RestartSpec == InitRestart /\ [][Next]_vars /\ Fairness

\* One daemon run (a start call and a stop call) over every remote dataset
\* of at most MaxRecords records.
InitSync ==
    /\ InitProgram
    /\ InitHost
    /\ remote \in AllBodies
    /\ dbfile \in {"ok", "missing"}
    /\ callsLeft = 2

SyncSpec == InitSync /\ [][Next]_vars

\* The resolver alone: threads call _get_location_for_ip concurrently, for
\* any addresses, with the database file present, missing or invalid; the
\* daemon is not started.
InitResolver ==
    /\ InitProgram
    /\ InitHost
    /\ remote = ArrayBody(<<>>)
    /\ dbfile \in {"ok", "missing", "invalid"}
    /\ callsLeft = MaxLookups

\* The addresses foreground callers look up: one with a record that has a
\* country and no location, one with no record, one with a nameless record.
LookupIPs == {"b", "c", "d"}

ResolverNext ==
    \/ \E r \in Resolvers : \E ip \in LookupIPs : ForegroundCall(r, ip)
    \/ \E r \in Resolvers : ForegroundReturn(r)
    \/ \E r \in Resolvers : ResolveLookup(r)
    \/ \E r \in Resolvers : ReaderCheck(r)
    \/ \E r \in Resolvers : ReaderLock(r)
    \/ \E r \in Resolvers : ReaderOpen(r)
    \/ \E r \in Resolvers : ReaderReturn(r)
    \/ \E r \in Resolvers : ResolveQuery(r)
    \/ \E r \in Resolvers : ResolveInsert(r)

ResolverSpec == InitResolver /\ [][ResolverNext]_vars

(***************************************************************************)
(* The parser on the honeypot host: parser.py run on a log file, and       *)
(* analyze_session called on the entries of a log.                         *)
(***************************************************************************)
\* parse_cowrie_logs(input_file, output_file), lines 68-133.
ParseCowrieLogs ==
    /\ events = NotRun
    /\ events' = parse_cowrie_logs(cowrie)
    /\ UNCHANGED <<daemonVars, geoVars, remote, dbfile, crashed, cowrie, analysis, dest, callVars, th, rs>>

\* analyze_session(session_logs), lines 27-66, on the entries of the log.
AnalyzeSession ==
    /\ analysis = NoAnalysis
    /\ cowrie.exists
    /\ ~ReadRaises(cowrie.lines)
    /\ analysis' = [state |-> "returned", result |-> analyze_session(ReadLines(cowrie.lines))]
    /\ UNCHANGED <<daemonVars, geoVars, remote, dbfile, crashed, cowrie, events, dest, callVars, th, rs>>

\* The command texts of the model.
Commands ==
    { <<"ls">>, <<"WGET", "Miner">>, <<"miner">>, <<"/ip cloud print">>,
      <<"TelegramDesktop">>, <<"smsd">>, <<"/IP CLOUD PRINT", "MINER">> }
\* The entries of one session, all of one timestamp: every event kind the
\* analysis tells apart, and a command entry for each text.
AnalysisLines ==
    {LogLine(Entry("s1", e, 1, <<>>, "a")) : e \in {Connect, LoginSuccess, LoginFailed, SessionClosed}}
    \cup {LogLine(Entry("s1", CommandInput, 1, t, "a")) : t \in Commands}
\* Lines of a log of two sessions (s1 from address a, s2 from b, and an
\* entry without a session), with two timestamps, and lines that are not
\* log entries.
SessionIp(session) == IF session = "s2" THEN "b" ELSE "a"
ParseLines ==
    {LogLine(Entry(sid, e, ts, <<>>, SessionIp(sid))) :
        sid \in {"s1", "s2"}, e \in {Connect, LoginFailed}, ts \in Timestamps}
    \cup {LogLine(Entry(None, Connect, 1, <<>>, "a")), BadLine, ValueLine}

RECURSIVE SeqsUpTo(_, _)
SeqsUpTo(S, n) ==
    IF n = 0 THEN {<<>>}
    ELSE LET shorter == SeqsUpTo(S, n - 1)
         IN  shorter \cup {Append(l, x) : l \in {q \in shorter : Len(q) = n - 1}, x \in S}

Inputs ==
    {NoInputFile}
    \cup {InputFile(l) : l \in SeqsUpTo(AnalysisLines, MaxLogs)}
    \cup {InputFile(l) : l \in SeqsUpTo(ParseLines, MaxLines)}

InitParser ==
    /\ InitProgram
    /\ remote = ArrayBody(<<>>)
    /\ dbfile = "ok"
    /\ callsLeft = 0
    /\ cowrie \in Inputs
    /\ events = NotRun
    /\ analysis = NoAnalysis

ParserNext ==
    \/ ParseCowrieLogs
    \/ AnalyzeSession

ParserSpec == InitParser /\ [][ParserNext]_vars

(***************************************************************************)
(* The claims.                                                             *)
(***************************************************************************)
InWrite == {"write_108", "write_111", "write_112"}

\* C1: start_sync_daemon is idempotent.  Every loop thread was created for
\* one stopped -> running transition (the threads created are the
\* transitions made plus the one a caller is completing at line 170), for
\* every interleaving of the callers; and a start call that finds the daemon
\* running, at line 164 or under the lock at line 166, returns without
\* changing _started, _thread, _stop_flag, _lock or any loop thread.
C1_StartIdempotent ==
    /\ [](crashed \/ NThreads = transitions + Cardinality({c \in Callers : cpc[c] = "start_170"}))
    /\ [][(started /\ callsLeft' < callsLeft
             /\ \A c \in Callers : cpc'[c] = "stop_174" => cpc[c] = "stop_174")
          => (cpc' = cpc /\ UNCHANGED <<started, thread, stop_flag, lock, th>>)]_vars
    /\ [][\A c \in Callers :
            (started /\ cpc[c] = "start_165" /\ cpc'[c] \notin {"start_165", "killed"})
            => (cpc'[c] = "idle" /\ UNCHANGED <<started, thread, stop_flag, lock, th>>)]_vars

\* C1 witness: every call was made, the daemon runs, and exactly one thread
\* was created in one transition: a start call found the daemon running.
C1_Witness ==
    /\ callsLeft = 0
    /\ \A c \in Callers : cpc[c] = "idle"
    /\ started
    /\ transitions = 1
    /\ NThreads = 1

\* C2: at every step of a publish, and after a crash at any of them, the
\* file at _LOCAL_PATH is a complete JSON array; it only ever changes from
\* the previous complete snapshot to the complete new one, in the rename of
\* line 112.
C2_AtomicPublish ==
    /\ [](dest.exists /\ IsCompleteJson(dest.text))
    /\ [][dest' # dest =>
            \E t \in Threads :
                /\ th[t].pc = "write_112"
                /\ th[t].tmp = File(Serialize(th[t].list))
                /\ dest' = File(Serialize(th[t].list))]_vars

\* C2 witness: the process was killed with the temporary file partly
\* written, and the snapshot file is the complete previous snapshot.
C2_Witness ==
    /\ crashed
    /\ \E t \in Threads :
        /\ th[t].tmp.exists
        /\ Len(th[t].tmp.text) \in 1 .. Len(th[t].list) + 1
        /\ dest = File(Serialize(<<>>))

\* C3: an iteration whose fetch fails writes nothing: the step leaves the
\* snapshot file and _lock as they are and takes the loop thread, still
\* running, to the wait of line 159; the thread leaves that wait only for
\* the while test, when the interval has passed or the stop flag is set.
C3_FetchFailure ==
    /\ [][\A t \in Threads :
            (th[t].pc = "sync_120" /\ th'[t].pc \notin {"sync_120", "sync_135", "killed"})
            => (th'[t].pc = "loop_159" /\ dest' = dest /\ lock' = lock)]_vars
    /\ [][\A t \in Threads :
            (th[t].pc = "loop_159" /\ th[t].outcome = "fetch_failed"
               /\ th'[t].pc \notin {"loop_159", "killed"})
            => /\ th'[t].pc = "loop_153"
               /\ dest' = dest
               /\ \/ th'[t].woke = "timeout" /\ ~stop_flag
                  \/ th'[t].woke = "signal" /\ stop_flag]_vars

\* C3 witness: a thread whose fetch failed waited out the interval and is
\* back at the while test, the snapshot file unchanged.
C3_Witness ==
    \E t \in Threads :
        /\ th[t].pc = "loop_153"
        /\ th[t].outcome = "fetch_failed"
        /\ th[t].woke = "timeout"
        /\ remote.items # <<>>
        /\ dest = File(Serialize(<<>>))

StopPcs == {"stop_174", "stop_176", "stop_177", "stop_180", "stop_181", "stop_182"}
InSync == {"sync_120", "sync_135", "sync_136", "sync_140", "fill_71"} \cup InWrite

\* C4: stop_sync_daemon never deadlocks.  Wherever the loop threads are
\* when the call is made (fetching, enriching, waiting for or holding _lock,
\* in the interval wait), the call ends: it returns, or the race of line 181
\* with another stop ends it with AttributeError, or the process is killed.
\* An iteration in progress is not cut short: it runs to the wait of line
\* 159, and a loop thread ends only at the while test of line 153, with the
\* stop flag set.
C4_StopNeverDeadlocks ==
    /\ \A c \in Callers : (cpc[c] \in StopPcs) ~> (cpc[c] \in {"idle", "raised", "killed"})
    /\ \A t \in Threads : (th[t].pc \in InSync) ~> (th[t].pc \in {"loop_159", "killed"})
    /\ [][\A t \in Threads :
            (th'[t].pc = "done" /\ th[t].pc # "done") => (th[t].pc = "loop_153" /\ stop_flag)]_vars

\* C4 witness: stop is at its join, holding _lock, while a loop thread has
\* every record filled and waits for _lock to write the snapshot.
C4_Witness ==
    \E c \in Callers, t \in Threads :
        /\ cpc[c] = "stop_177"
        /\ thread = t
        /\ th[t].pc = "sync_140"
        /\ th[t].idx > Len(th[t].list)

\* C5: stop_sync_daemon called while the daemon runs sets the stop flag
\* (line 176), leaves its join of line 177 (the thread ended, or the two
\* seconds passed) with the flag set, the daemon marked not running, the
\* thread reference cleared and _lock released, closes the handle the global
\* names (line 181) and returns with the global reset to absent (line 182);
\* without a handle it returns from line 180.
C5_StopReleases ==
    [][\A c \in Callers :
        /\ (cpc[c] = "stop_174" /\ started /\ cpc'[c] \notin {"stop_174", "killed"})
            => (cpc'[c] = "stop_176" /\ lock')
        /\ (cpc[c] = "stop_176" /\ cpc'[c] \notin {"stop_176", "killed"})
            => (cpc'[c] = "stop_177" /\ stop_flag')
        /\ (cpc[c] = "stop_177" /\ cpc'[c] \notin {"stop_177", "killed"})
            => /\ cpc'[c] = "stop_180"
               /\ (thread = 0 \/ th[thread].pc = "done" \/ ENABLED StopJoinTimeout(c))
               /\ stop_flag' /\ ~started' /\ thread' = 0 /\ ~lock'
        /\ (cpc[c] = "stop_180" /\ cpc'[c] \notin {"stop_180", "killed"})
            => IF geoip_reader = 0 THEN cpc'[c] = "idle" /\ geoip_reader' = 0
                                   ELSE cpc'[c] = "stop_181"
        /\ (cpc[c] = "stop_181" /\ cpc'[c] = "stop_182")
            => (geoip_reader # 0 /\ geoip_reader \in closed' /\ geoip_reader' = geoip_reader)
        /\ (cpc[c] = "stop_182" /\ cpc'[c] \notin {"stop_182", "killed"})
            => (cpc'[c] = "idle" /\ geoip_reader' = 0)]_vars

\* C5 witness: a stop has returned after closing the handle a lookup had
\* opened: not running, no thread reference, no handle, the flag set.
C5_Witness ==
    /\ \A c \in Callers : cpc[c] = "idle"
    /\ ~started /\ thread = 0 /\ stop_flag
    /\ geoip_reader = 0 /\ opened = 1 /\ closed = {1}

\* C6: stop_sync_daemon called while the daemon is not running returns from
\* line 175 and changes nothing: not the started flag, the thread reference,
\* the stop flag, _lock, the database handle, the lookup cache or the
\* snapshot file.
C6_StopNoOp ==
    [][\A c \in Callers :
        (cpc[c] = "stop_174" /\ ~started /\ cpc'[c] \notin {"stop_174", "killed"})
        => /\ cpc'[c] = "idle"
           /\ UNCHANGED <<started, thread, stop_flag, lock, geoVars, dest, th, rs>>]_vars

\* C6 witness: the first call of the program was a stop, and it has
\* returned.
C6_Witness ==
    /\ callsLeft = MaxCalls - 1
    /\ \A c \in Callers : cpc[c] = "idle"
    /\ ~started /\ thread = 0 /\ ~stop_flag /\ transitions = 0

\* C7: a loop thread that the stop signal took out of its interval wait
\* (line 159 returned because the flag was set) exits at the while test of
\* line 153; it starts no other iteration.
C7_WaitInterruptible ==
    [][\A t \in Threads :
        (th[t].pc = "loop_153" /\ th[t].woke = "signal" /\ th'[t].pc \notin {"loop_153", "killed"})
        => th'[t].pc = "done"]_vars

\* C8: no failure ends the loop.  A failed fetch or parse and a failed
\* snapshot write take the thread to the wait of line 159 (the write with
\* _lock released), a query that raises is caught at line 62 and the
\* iteration goes on; a loop thread ends only at the while test of line 153
\* with the stop flag set, and only line 176 of a stop call sets the flag.
C8_NoFailureTerminates ==
    /\ [][\A t \in Threads :
            (th'[t].pc = "done" /\ th[t].pc # "done") => (th[t].pc = "loop_153" /\ stop_flag)]_vars
    /\ [][(stop_flag' /\ ~stop_flag)
            => \E c \in Callers : cpc[c] = "stop_176" /\ cpc'[c] = "stop_177"]_vars
    /\ [][\A t \in Threads :
            (th'[t].outcome \in {"fetch_failed", "write_failed"} /\ th[t].outcome = "none")
            => /\ th'[t].pc = "loop_159"
               /\ th[t].pc \in InWrite => ~lock']_vars
    /\ [][\A t \in Threads :
            (rs[t].pc = "resolve_54" /\ rs[t].reader \in closed /\ rs'[t].pc \notin {"resolve_54", "killed"})
            => /\ rs'[t].pc = "insert"
               /\ rs'[t].res = UnknownLocation
               /\ th'[t].pc = th[t].pc]_vars

\* C8 witness: a loop thread whose snapshot write failed went through the
\* interval wait and is back at the while test, the stop flag clear.
C8_Witness ==
    \E t \in Threads :
        /\ th[t].pc = "loop_153"
        /\ th[t].outcome = "write_failed"
        /\ th[t].woke = "timeout"
        /\ ~stop_flag

\* C9: within one sync iteration no source IP is queried in the database
\* more than once, however many records share it and however many other
\* IPs the iteration resolves (the upper half of "exactly one query").
C9_OneQueryPerIp ==
    \A t \in Threads : \A ip \in IPs : th[t].nq[ip] <= 1

\* C10: resolving an IP again right after it was resolved (the resolution
\* before this call was of the same IP) is answered by the cache: the call
\* returns the result the first one returned, and no database query is
\* made.
C10_ResolverIdempotent ==
    [][\A t \in Threads :
        (rs[t].pc = "lookup" /\ last.ip = rs[t].ip /\ rs'[t].pc \notin {"lookup", "killed"})
        => /\ rs'[t].pc = "ret"
           /\ rs'[t].res = last.res
           /\ th'[t].nq = th[t].nq
           /\ UNCHANGED <<geoip_reader, opened>>]_vars

\* C10 witness: line 71 resolved "a" again after line 136 had resolved it
\* with the one query of the iteration, and got the same database record.
C10_Witness ==
    \E t \in Threads :
        /\ th[t].pc = "fill_71"
        /\ rs[t].pc = "ret"
        /\ rs[t].ip = "a"
        /\ last = [ip |-> "a", res |-> Lookup("a")]
        /\ rs[t].res = Lookup("a")
        /\ th[t].nq["a"] = 1

\* The calls of the resolver for ip that are in progress and have each
\* made their database query.
Queried(ip) ==
    {w \in Workers : rs[w].ip = ip /\ rs[w].pc = "insert" /\ rs[w].reader # 0}

\* C11: callers resolving the same IP at the same time make at most two
\* database queries for it between them (the needed one and one redundant).
C11_AtMostOneRedundantQuery ==
    \A ip \in IPs : Cardinality(Queried(ip)) <= 2

\* C12: the geo database is opened at most once, under _geoip_lock and only
\* while the global holds no handle, for every interleaving of concurrent
\* callers; every caller that obtains a handle obtains that one.
C12_OpenedOnce ==
    /\ [](opened <= 1)
    /\ [](geoip_reader = opened)
    /\ [](\A w \in Workers : rs[w].reader \in {0, geoip_reader})
    /\ [][opened' # opened => (geoip_reader = 0 /\ geoip_lock /\ geoip_reader' = opened')]_vars

\* C12 witness: two callers both found the global empty at line 32; one has
\* opened the database and obtained the handle, the other now holds
\* _geoip_lock and finds the database open at line 34.
C12_Witness ==
    \E r1, r2 \in Resolvers :
        /\ r1 # r2
        /\ rs[r1].pc = "resolve_54"
        /\ rs[r1].reader = 1
        /\ rs[r2].pc = "reader_34"
        /\ geoip_reader = 1
        /\ opened = 1

\* C13: with the database file missing or invalid, once a lookup has failed
\* to initialise the reader (its None result is in the cache), every lookup
\* that begins afterwards, for any address, returns None from the degraded
\* state at once: it does not go on to _get_geoip_reader, whose lines 34-43
\* test the file's existence and try to open it.
C13_DegradedOnce ==
    [][\A w \in Workers :
        (dbfile # "ok" /\ (\E i \in 1 .. Len(cache) : cache[i].res = NoLocation)
            /\ rs[w].pc = "lookup" /\ rs'[w].pc \notin {"lookup", "killed"})
        => (rs'[w].pc = "ret" /\ rs'[w].res = NoLocation)]_vars

\* The records of a snapshot file's document.
Records(text) == [i \in 1 .. Len(text) - 2 |-> text[i + 1].rec]
\* The values that stand for "no country": None, the parser's placeholder
\* and the resolver's marker.
NoCountry == {None, "N/A", "Unknown"}
\* lat, lon and country of a record are all populated or all absent.
GeoConsistent(rec) ==
    \/ rec.lat = None /\ rec.lon = None /\ rec.country \in NoCountry
    \/ rec.lat # None /\ rec.lon # None /\ rec.country \notin NoCountry
Geo(rec) == <<rec.lat, rec.lon, rec.country>>

\* C14: every record of the published snapshot has latitude, longitude and
\* country all populated or all absent.
C14_GeoAllOrNothing ==
    \A i \in 1 .. Len(dest.text) - 2 : GeoConsistent(Records(dest.text)[i])

\* C15: with the database file missing, a snapshot is published only from
\* a finished enrichment pass, and lat, lon and country of every record in
\* it are those of the fetched record.
C15_MissingDbUnmodified ==
    [][(dbfile = "missing" /\ dest' # dest)
        => /\ Len(Records(dest'.text)) = Len(remote.items)
           /\ \A i \in 1 .. Len(remote.items) :
                Geo(Records(dest'.text)[i]) = Geo(remote.items[i])]_vars

\* The entries analyze_session was called on, and what the claims say of
\* them: a login succeeded, a login failed, a command holds the word in any
\* letter case.
SessionLogsGiven == ReadLines(cowrie.lines)
LoggedIn == \E i \in 1 .. Len(SessionLogsGiven) : SessionLogsGiven[i].eventid = LoginSuccess
LoginRefused == \E i \in 1 .. Len(SessionLogsGiven) : SessionLogsGiven[i].eventid = LoginFailed
Typed(word) ==
    \E i \in 1 .. Len(SessionLogsGiven) :
        /\ SessionLogsGiven[i].eventid = CommandInput
        /\ \E j \in 1 .. Len(SessionLogsGiven[i].input) : LowerWord(SessionLogsGiven[i].input[j]) = word

\* C16: for a session with a successful login and a command that contains
\* "miner" in any letter case, analyze_session returns (cryptominer-check,
\* 4), whatever other commands there are and wherever the miner command is.
C16_MinerWins ==
    (analysis.state = "returned" /\ LoggedIn /\ Typed("miner"))
    => analysis.result = Verdict("cryptominer-check", 4)

\* C17: for a session without a successful login analyze_session returns
\* (brute-force, 2) if a login failed and (scan, 1) if none did, whatever
\* commands the session holds.
C17_NoLoginByFailures ==
    (analysis.state = "returned" /\ ~LoggedIn)
    => analysis.result = IF LoginRefused THEN Verdict("brute-force", 2) ELSE Verdict("scan", 1)

\* C17 witness: a session with a failed login, no successful one and a
\* miner command was analysed as brute-force.
C17_Witness ==
    /\ analysis.state = "returned"
    /\ ~LoggedIn /\ LoginRefused /\ Typed("miner")
    /\ analysis.result = Verdict("brute-force", 2)

\* C18: for a session with a successful login and no miner command:
\* (mikrotik-recon, 3) if any command contains "/ip cloud print", even after
\* a command with "telegramdesktop" or "smsd"; otherwise (info-gathering, 3)
\* if any command contains "telegramdesktop" or "smsd"; otherwise
\* (reconnaissance, 2), with or without failed logins.
C18_PriorityWithoutMiner ==
    (analysis.state = "returned" /\ LoggedIn /\ ~Typed("miner"))
    => analysis.result =
         IF Typed("/ip cloud print") THEN Verdict("mikrotik-recon", 3)
         ELSE IF Typed("telegramdesktop") \/ Typed("smsd") THEN Verdict("info-gathering", 3)
         ELSE Verdict("reconnaissance", 2)

\* The chronologically first entry of a session of the log: the earliest
\* timestamp, the earliest line among equal timestamps.
SessionIds == {"s1", "s2"}
Present(sid) == \E i \in 1 .. Len(SessionLogsGiven) : SessionLogsGiven[i].session = sid
FirstIndex(sid) ==
    CHOOSE i \in 1 .. Len(SessionLogsGiven) :
        /\ SessionLogsGiven[i].session = sid
        /\ \A j \in 1 .. Len(SessionLogsGiven) :
              SessionLogsGiven[j].session = sid
              => \/ SessionLogsGiven[i].timestamp < SessionLogsGiven[j].timestamp
                 \/ SessionLogsGiven[i].timestamp = SessionLogsGiven[j].timestamp /\ i <= j
StartsWithConnect(sid) == Present(sid) /\ SessionLogsGiven[FirstIndex(sid)].eventid = Connect
EventsOf(sid) == {k \in 1 .. Len(events.items) : events.items[k].src_ip = SessionIp(sid)}

\* C19: parse_cowrie_logs emits one event for every session whose
\* chronologically first entry is a connect and none for any other session;
\* the events are as many as the sessions that start with a connect.
C19_OneEventPerConnectSession ==
    events.state = "written"
    => /\ Len(events.items) = Cardinality({sid \in SessionIds : StartsWithConnect(sid)})
       /\ \A sid \in SessionIds :
            Cardinality(EventsOf(sid)) = IF StartsWithConnect(sid) THEN 1 ELSE 0

\* C19 witness: session s1 was emitted although its connect is not its
\* first line in the file (the sort put it first), session s2, which has no
\* connect, was not.
C19_Witness ==
    /\ events.state = "written"
    /\ StartsWithConnect("s1")
    /\ \E i \in 1 .. FirstIndex("s1") - 1 : SessionLogsGiven[i].session = "s1"
    /\ Present("s2") /\ ~StartsWithConnect("s2")
    /\ Len(events.items) = 1
    /\ events.items[1].src_ip = "a"

\* The input without the lines json.loads rejects.
WithoutInvalid(lines) == SelectSeq(lines, LAMBDA l : l.kind # "invalid")

\* C20: a line that cannot be parsed is skipped by itself: the run ends as
\* it does on the input without its unparseable lines, with the same events.
C20_InvalidLineSkipped ==
    (events # NotRun /\ cowrie.exists)
    => events = parse_cowrie_logs(InputFile(WithoutInvalid(cowrie.lines)))

\* C20 witness: an unparseable line stood between the connect and the
\* failed login of one session; the session's event was emitted, and it
\* counts the login after that line.
C20_Witness ==
    /\ events.state = "written"
    /\ Len(cowrie.lines) = 3
    /\ cowrie.lines[1] = LogLine(Entry("s1", Connect, 1, <<>>, "a"))
    /\ cowrie.lines[2] = BadLine
    /\ cowrie.lines[3] = LogLine(Entry("s1", LoginFailed, 2, <<>>, "a"))
    /\ Len(events.items) = 1
    /\ events.items[1].label = "brute-force"

\* The ids of the records of a list, in order.
Ids(list) == [i \in 1 .. Len(list) |-> list[i].id]

\* C21: an iteration whose fetch succeeded reaches the interval wait having
\* published the fetched list (unless the write failed): the snapshot holds
\* the fetched records, in their order, none dropped and none added, also
\* for an empty array.
C21_FetchedListPublished ==
    \A t \in Threads :
        (th[t].pc = "loop_159" /\ th[t].outcome \notin {"fetch_failed", "write_failed"})
        => /\ th[t].outcome = "published"
           /\ Ids(Records(dest.text)) = Ids(remote.items)

\* C22: the published records are the fetched ones, with the same keys, id
\* and source address; a record that has a latitude and a country other
\* than the placeholder is published as fetched, and an enriched record
\* differs from the fetched one in lat, lon and country only.
C22_OnlyGeoFieldsChange ==
    [][dest' # dest
        => /\ Len(Records(dest'.text)) = Len(remote.items)
           /\ \A i \in 1 .. Len(remote.items) :
                LET fetched == remote.items[i]
                    published == Records(dest'.text)[i]
                IN  /\ DOMAIN published = DOMAIN fetched
                    /\ \A k \in DOMAIN fetched \ {"lat", "lon", "country"} : published[k] = fetched[k]
                    /\ ~NeedsLocation(fetched) => published = fetched]_vars

\* C22 witness: a located record and a bare one were fetched; the snapshot
\* holds the first as fetched and the second with its country filled.
C22_Witness ==
    /\ remote.items = <<Located("a"), Bare("b")>>
    /\ Len(dest.text) = 4
    /\ Records(dest.text)[1] = Located("a")
    /\ Records(dest.text)[2] = [Bare("b") EXCEPT !.country = "China"]

\* The records of thread t's list that the fill pass has changed.
FilledIps(t) ==
    {th[t].list[i].src_ip : i \in {j \in 1 .. Len(th[t].list) : th[t].list[j] # remote.items[j]}}

\* C23: the dedup pass and the fill pass use one predicate: both resolve
\* only source IPs of fetched records that lack geographic data, the fill
\* pass starts when the dedup pass has resolved them all, and at its end the
\* source IPs of the records it filled are the IPs the dedup pass resolved.
C23_SamePredicate ==
    /\ [][\A t \in Threads :
            /\ (th[t].pc = "sync_135" /\ th'[t].pc = "sync_136")
                => rs'[t].ip \in UniqueIps(remote.items) \ th'[t].todo
            /\ (th[t].pc = "sync_135" /\ th'[t].pc = "sync_140") => th[t].todo = {}
            /\ (th[t].pc = "sync_140" /\ th'[t].pc = "fill_71")
                => /\ rs'[t].ip \in UniqueIps(remote.items)
                   /\ NeedsLocation(remote.items[th[t].idx])]_vars
    /\ [](\A t \in Threads :
            (th[t].pc = "sync_140" /\ th[t].idx > Len(th[t].list))
            => FilledIps(t) = UniqueIps(remote.items))

\* C23 witness: of a located record for a and a bare record for b, the
\* dedup pass resolved b alone and the fill pass filled b alone.
C23_Witness ==
    \E t \in Threads :
        /\ remote.items = <<Located("a"), Bare("b")>>
        /\ th[t].pc = "sync_140"
        /\ th[t].idx = 3
        /\ FilledIps(t) = {"b"}
        /\ th[t].nq["b"] = 1
        /\ th[t].nq["a"] = 0

\* C24: the count of a sync iteration is the number of records whose
\* geographic data was filled in it: records that lacked it and now have
\* coordinates; a record whose resolution gave no location is not counted.
C24_CountIsFilled ==
    \A t \in Threads :
        (th[t].pc = "sync_140" /\ th[t].idx > Len(th[t].list))
        => th[t].filled_count =
             Cardinality({i \in 1 .. Len(th[t].list) :
                            NeedsLocation(remote.items[i]) /\ th[t].list[i].lat # None})

\* C25: a resolution that found a database record without location fields
\* returns a result with a country and without coordinates; a resolution
\* that found no record, or had no database, returns the unknown marker,
\* which holds no country; so the two kinds of result differ.
C25_OutcomesDistinct ==
    \A w \in Workers :
        rs[w].pc = "insert"
        => LET res == rs[w].res
               hasCountry == "country" \in DOMAIN res /\ res.country \notin NoCountry
               hasCoordinates == "lat" \in DOMAIN res /\ res.lat # None
           IN  /\ (rs[w].reader # 0 /\ GeoDB(rs[w].ip) \in {"noloc", "nameless"})
                    => (hasCountry /\ ~hasCoordinates)
               /\ (rs[w].reader = 0 \/ GeoDB(rs[w].ip) = "miss")
                    => (~hasCountry /\ ~hasCoordinates)

\* The loop threads that are running: created and not ended.
Running == {t \in Threads : th[t].pc \notin {"none", "done", "killed"}}

\* C26: at most one loop thread is running at any time, whatever the
\* start and stop calls and their interleaving, a stop whose join timed out
\* followed by a start included.
C26_OneLoopThread ==
    Cardinality(Running) <= 1

\* C27: a loop thread for which a stop call has set the stop flag (the call
\* is at its join, line 177) eventually ends, whatever calls follow.
C27_StoppedThreadExits ==
    \A t \in Threads :
        (thread = t /\ \E c \in Callers : cpc[c] = "stop_177")
        ~> (th[t].pc \in {"done", "killed"})

\* C28: once a stop call that stopped the daemon has returned, and while no
\* other call is made, no step changes the snapshot file.
C28_NoWriteAfterStop ==
    [][(/\ \A c \in Callers : cpc[c] = "idle"
        /\ ~started
        /\ transitions >= 1)
       => dest' = dest]_vars

\* C29: every database query is made on an open handle: the handle a
\* caller got from _get_geoip_reader has not been closed when the caller
\* reaches reader.get.
C29_NoQueryOnClosedHandle ==
    [][\A w \in Workers :
        (rs[w].pc = "resolve_54" /\ rs'[w].pc = "insert") => rs[w].reader \notin closed]_vars

====
